---- MODULE Spec2Model ----
(***************************************************************************)
(* State-machine model of python_client/sbustap.py: the SBUSController     *)
(* session (connect / disconnect / start_monitoring / stop_monitoring),    *)
(* its background reader thread (_monitor_loop, _process_message), the     *)
(* synchronous command path (_send_command and its wrappers), and the      *)
(* serial device on the other end of the transport.                        *)
(*                                                                         *)
(* Time scale.  The code has three timeouts: the 2 s join of the reader    *)
(* thread, the 5 s response wait and the 10 s handshake window.  Every     *)
(* other step of the library takes far less than any of them, except user  *)
(* callbacks (arbitrary user code) and the device (the environment).  The  *)
(* model has no clock; a timeout may fire only when the step it waits for  *)
(* is not about to happen on the library's own time scale.  The response   *)
(* wait is counted in its 0.1 s polls of the response queue.               *)
(***************************************************************************)
EXTENDS Integers, Sequences, FiniteSets, TLC

(***************************************************************************)
(* Bounds of the model.                                                    *)
(***************************************************************************)
MaxEmit == 3     \* lines the device emits in one run
MaxSpawn == 2    \* reader threads started in one run
MaxOps == 4      \* public operations invoked in one run

(***************************************************************************)
(* Program constants.                                                      *)
(***************************************************************************)
SBUS_MIN_VALUE == 0
SBUS_MAX_VALUE == 2047
SBUS_CENTER_VALUE == 992
SBUS_CHANNELS == 16

\* self._response_timeout, counted in polls of the response queue: the wait
\* of _send_command polls with get(timeout=0.1) until 5.0 s have gone by (50
\* polls); the model scales the 50 down.
ResponseTicks == 2

Callers == {1, 2}
Readers == 1..MaxSpawn

VARIABLES
    is_connected,      \* self.is_connected
    is_monitoring,     \* self.is_monitoring
    port,              \* self.serial_conn: "none" | "open" | "closed"
    stop,              \* self._stop_monitoring (threading.Event)
    monitor_thread,    \* self._monitor_thread: 0 (None) or a reader thread id
    queue,             \* self._message_queue
    last_channel_data, \* self._last_channel_data
    last_device_status,\* self._last_device_status
    cbs,               \* the callback categories that are registered
    rpc,               \* per reader thread: position in _monitor_loop
    rbuf,              \* per reader thread: the local `buffer`
    rcur,              \* per reader thread: the message whose callback runs
    cpc,               \* per caller thread: position in the public operation
    call,              \* per caller thread: the operation invoked and its arguments
    cres,              \* per caller thread: how the last operation ended
    cresp,             \* per caller thread: the message _send_command returned
    mark,              \* per caller thread: lines the device had emitted when the command was written
    waited,            \* per caller thread: polls of the response queue that came back empty
    rx,                \* bytes the device sent that no read has consumed yet
    tx,                \* command lines written to the transport, not yet answered
    replied,           \* per caller thread: the reply the device sent to its pending command
    unplugged,         \* the transport has failed for good
    emitted,           \* lines the device has emitted so far
    framed,            \* lines the reader threads have framed so far
    spawned,           \* reader threads started so far
    nops               \* public operations invoked so far

session == <<is_connected, is_monitoring, port, stop, monitor_thread>>
snapshots == <<last_channel_data, last_device_status>>
reader == <<rpc, rbuf, rcur, framed>>
caller == <<cpc, call, cres, cresp, mark, waited, nops>>
device == <<rx, tx, replied, unplugged, emitted>>
vars == <<session, queue, snapshots, cbs, reader, caller, device, spawned>>

(***************************************************************************)
(* Messages.  A line on the wire is one body byte followed by the newline  *)
(* byte; the body stands for the whole JSON text of the line.  form is     *)
(* "full" (a JSON object with its type and every field the type needs),    *)
(* "partial" (a JSON object with its type, lacking the type's fields) or   *)
(* "garbage" (not JSON).  id is the emission number of the line and seq    *)
(* its framing number; both are bookkeeping, not read by the program.      *)
(***************************************************************************)
MessageType ==
    {"ready", "channels", "status", "channel_set", "channels_set",
     "channel_cleared", "all_cleared", "override_status",
     "override_expired", "help", "error"}

NL == [id |-> 0, type |-> "newline", form |-> "nl", seq |-> 0]
NoMsg == [id |-> 0, type |-> "none", form |-> "none", seq |-> 0]

Body(i, t, f) == [id |-> i, type |-> t, form |-> f, seq |-> 0]

\* The lines the device sends unsolicited.
Telemetry ==
    {<<"channels", "full">>, <<"channels", "partial">>, <<"error", "full">>,
     <<"junk", "garbage">>}

\* The acknowledgement the device sends for a command.
AckOf(cmd) ==
    CASE cmd = "set_channel" -> "channel_set"
      [] cmd = "set_channels" -> "channels_set"
      [] cmd = "clear_channel" -> "channel_cleared"
      [] cmd = "clear_all" -> "all_cleared"
      [] cmd = "status" -> "override_status"
      [] cmd = "help" -> "help"

Categories == {"channel", "error"}

\* The callback category a message type is delivered to ("" for none).
CategoryOf(type) ==
    CASE type = "channels" -> "channel"
      [] type = "status" -> "status"
      [] type = "override_expired" -> "override"
      [] type = "error" -> "error"
      [] OTHER -> ""

(***************************************************************************)
(* Line framing of _monitor_loop: `while '\n' in buffer: line, buffer =    *)
(* buffer.split('\n', 1)`.                                                 *)
(***************************************************************************)
HasNL(buf) == \E i \in 1..Len(buf) : buf[i] = NL

FirstNL(buf) == CHOOSE i \in 1..Len(buf) : buf[i] = NL /\ \A j \in 1..(i - 1) : buf[j] # NL

SplitLine(buf) == SubSeq(buf, 1, FirstNL(buf) - 1)

SplitRest(buf) == SubSeq(buf, FirstNL(buf) + 1, Len(buf))

\* json.loads(line) succeeds: the line is exactly one JSON text.
JsonLoads(line) == Len(line) = 1 /\ line[1].form # "garbage"

\* Building the typed payload reads msg['...'] and raises KeyError on a
\* missing field; only the four notification types build one.
PayloadRaises(msg) == CategoryOf(msg.type) # "" /\ msg.form = "partial"

Init ==
    /\ is_connected = FALSE
    /\ is_monitoring = FALSE
    /\ port = "none"
    /\ stop = FALSE
    /\ monitor_thread = 0
    /\ queue = <<>>
    /\ last_channel_data = NoMsg
    /\ last_device_status = NoMsg
    /\ cbs = {}
    /\ rpc = [t \in Readers |-> "unborn"]
    /\ rbuf = [t \in Readers |-> <<>>]
    /\ rcur = [t \in Readers |-> NoMsg]
    /\ cpc = [c \in Callers |-> "idle"]
    /\ call = [c \in Callers |-> [cmd |-> "none", args |-> <<>>, no |-> 0]]
    /\ cres = [c \in Callers |-> "none"]
    /\ cresp = [c \in Callers |-> NoMsg]
    /\ mark = [c \in Callers |-> 0]
    /\ waited = [c \in Callers |-> 0]
    /\ rx = <<>>
    /\ tx = <<>>
    /\ replied = [c \in Callers |-> "none"]
    /\ unplugged = FALSE
    /\ emitted = 0
    /\ framed = 0
    /\ spawned = 0
    /\ nops = 0

(***************************************************************************)
(* The device and the transport.                                           *)
(***************************************************************************)
\* The device sends an unsolicited line of the given type and form.
DeviceTelemetry(type, form) ==
    /\ port = "open" /\ ~unplugged /\ emitted < MaxEmit
    /\ rx' = rx \o <<Body(emitted + 1, type, form), NL>>
    /\ emitted' = emitted + 1
    /\ UNCHANGED <<session, queue, snapshots, cbs, reader, caller, tx, replied, unplugged, spawned>>

\* The device answers the oldest unanswered command, with its
\* acknowledgement or with an error message.
DeviceReply ==
    /\ port = "open" /\ ~unplugged /\ emitted < MaxEmit
    /\ tx # <<>>
    /\ \E t \in {AckOf(Head(tx).cmd), "error"} :
         /\ rx' = rx \o <<Body(emitted + 1, t, "full"), NL>>
         /\ replied' = IF cpc[Head(tx).by] = "wait" /\ call[Head(tx).by].no = Head(tx).no
                         THEN [replied EXCEPT ![Head(tx).by] = t]
                         ELSE replied
    /\ tx' = Tail(tx)
    /\ emitted' = emitted + 1
    /\ UNCHANGED <<session, queue, snapshots, cbs, reader, caller, unplugged, spawned>>

\* The transport fails for good (the device is unplugged).
Unplug ==
    /\ port = "open" /\ ~unplugged
    /\ unplugged' = TRUE
    /\ UNCHANGED <<session, queue, snapshots, cbs, reader, caller, rx, tx, replied, emitted, spawned>>

(***************************************************************************)
(* The reader thread: _monitor_loop and _process_message.                  *)
(***************************************************************************)
\* `while not self._stop_monitoring.is_set()` finds the flag set.
ReaderExit(t) ==
    /\ rpc[t] = "loop" /\ stop
    /\ rpc' = [rpc EXCEPT ![t] = "done"]
    /\ UNCHANGED <<session, queue, snapshots, cbs, rbuf, rcur, framed, caller, device, spawned>>

\* The read of the loop body: serial_conn.in_waiting and serial_conn.read.
\* On a closed or failed transport they raise, and the handler of the loop
\* calls the error callback. The bytes read are those that have arrived: a
\* non-empty prefix of what the device has sent.
ReaderRead(t) ==
    /\ rpc[t] = "loop" /\ ~stop
    /\ IF port # "open" \/ unplugged
         THEN /\ "error" \in cbs
              /\ rpc' = [rpc EXCEPT ![t] = "errcb"]
              /\ UNCHANGED <<rbuf, rx>>
         ELSE /\ rx # <<>>
              /\ \E n \in 1..Len(rx) :
                   /\ rbuf' = [rbuf EXCEPT ![t] = rbuf[t] \o SubSeq(rx, 1, n)]
                   /\ rx' = SubSeq(rx, n + 1, Len(rx))
              /\ rpc' = [rpc EXCEPT ![t] = "lines"]
    /\ UNCHANGED <<session, queue, snapshots, cbs, rcur, framed, caller, tx, replied, unplugged, emitted, spawned>>

\* The error callback called from the handler of the loop returns.
ErrorHandlerReturn(t) ==
    /\ rpc[t] = "errcb"
    /\ rpc' = [rpc EXCEPT ![t] = "loop"]
    /\ UNCHANGED <<session, queue, snapshots, cbs, rbuf, rcur, framed, caller, device, spawned>>

\* The error callback called from the handler of the loop raises: nothing
\* catches it and the thread ends.
ErrorHandlerRaise(t) ==
    /\ rpc[t] = "errcb"
    /\ rpc' = [rpc EXCEPT ![t] = "crashed"]
    /\ UNCHANGED <<session, queue, snapshots, cbs, rbuf, rcur, framed, caller, device, spawned>>

\* One turn of `while '\n' in buffer`: frame a line and hand it to
\* _process_message, up to the call of the notification callback.
ReaderLine(t) ==
    /\ rpc[t] = "lines"
    /\ IF ~HasNL(rbuf[t])
         THEN /\ rpc' = [rpc EXCEPT ![t] = "loop"]
              /\ UNCHANGED <<rbuf, rcur, framed, queue, snapshots>>
         ELSE LET line == SplitLine(rbuf[t])
                  msg == [line[1] EXCEPT !.seq = framed + 1]
              IN /\ rbuf' = [rbuf EXCEPT ![t] = SplitRest(rbuf[t])]
                 /\ IF line = <<>>
                      THEN UNCHANGED <<rpc, rcur, framed, queue, snapshots>>
                      ELSE /\ framed' = framed + 1
                           /\ IF ~JsonLoads(line) \/ PayloadRaises(msg)
                                THEN UNCHANGED <<rpc, rcur, queue, snapshots>>
                                ELSE /\ last_channel_data' =
                                          IF msg.type = "channels" THEN msg ELSE last_channel_data
                                     /\ last_device_status' =
                                          IF msg.type = "status" THEN msg ELSE last_device_status
                                     /\ IF CategoryOf(msg.type) \in cbs
                                          THEN /\ rpc' = [rpc EXCEPT ![t] = "callback"]
                                               /\ rcur' = [rcur EXCEPT ![t] = msg]
                                               /\ UNCHANGED queue
                                          ELSE /\ queue' = Append(queue, msg)
                                               /\ UNCHANGED <<rpc, rcur>>
    /\ UNCHANGED <<session, cbs, caller, device, spawned>>

\* The notification callback returns: `self._message_queue.put(msg)`.
CallbackReturn(t) ==
    /\ rpc[t] = "callback"
    /\ queue' = Append(queue, rcur[t])
    /\ rpc' = [rpc EXCEPT ![t] = "lines"]
    /\ rcur' = [rcur EXCEPT ![t] = NoMsg]
    /\ UNCHANGED <<session, snapshots, cbs, rbuf, framed, caller, device, spawned>>

\* The notification callback raises: `except Exception` of
\* _process_message logs it, and the put is skipped.
CallbackRaise(t) ==
    /\ rpc[t] = "callback"
    /\ rpc' = [rpc EXCEPT ![t] = "lines"]
    /\ rcur' = [rcur EXCEPT ![t] = NoMsg]
    /\ UNCHANGED <<session, queue, snapshots, cbs, rbuf, framed, caller, device, spawned>>

(***************************************************************************)
(* The caller threads: the public operations.                              *)
(***************************************************************************)
Done(c, op, res) ==
    /\ cpc' = [cpc EXCEPT ![c] = "idle"]
    /\ call' = [call EXCEPT ![c] = op]
    /\ cres' = [cres EXCEPT ![c] = res]

\* The invocation record: the operation, its arguments, its number.
Invoke(name, args) == [cmd |-> name, args |-> args, no |-> nops + 1]

Op(name) == Invoke(name, <<>>)

\* set_*_callback.
SetCallback(c, cat) ==
    /\ cpc[c] = "idle"
    /\ cat \notin cbs
    /\ cbs' = cbs \cup {cat}
    /\ UNCHANGED <<session, queue, snapshots, reader, caller, device, spawned>>

\* connect(), up to the handshake loop: serial.Serial(...) opens the port,
\* or raises SerialException, which connect() turns into
\* SBUSCommunicationError.
ConnectOpen(c) ==
    /\ cpc[c] = "idle" /\ nops < MaxOps
    /\ nops' = nops + 1
    /\ IF unplugged
         THEN /\ Done(c, Op("connect"), "CommunicationError")
              /\ UNCHANGED port
         ELSE /\ port' = "open"
              /\ cpc' = [cpc EXCEPT ![c] = "handshake"]
              /\ call' = [call EXCEPT ![c] = Op("connect")]
              /\ cres' = [cres EXCEPT ![c] = "none"]
    /\ UNCHANGED <<is_connected, is_monitoring, stop, monitor_thread, queue, snapshots,
                   cbs, reader, cresp, mark, waited, device, spawned>>

\* One turn of the handshake loop that finds bytes waiting: readline(),
\* json.loads, and the test of the type. A transport that raises ends
\* connect() with SBUSCommunicationError.
ConnectReadLine(c) ==
    /\ cpc[c] = "handshake"
    /\ IF port # "open" \/ unplugged
         THEN /\ Done(c, call[c], "CommunicationError")
              /\ UNCHANGED <<is_connected, rx>>
         ELSE /\ rx # <<>>
              /\ LET line == IF HasNL(rx) THEN SplitLine(rx) ELSE rx
                 IN /\ rx' = IF HasNL(rx) THEN SplitRest(rx) ELSE <<>>
                    /\ IF JsonLoads(line) /\ line[1].type \in {"ready", "channels", "status"}
                         THEN /\ is_connected' = TRUE
                              /\ Done(c, call[c], "connected")
                         ELSE UNCHANGED <<is_connected, cpc, call, cres>>
    /\ UNCHANGED <<is_monitoring, port, stop, monitor_thread, queue, snapshots, cbs, reader,
                   cresp, mark, waited, nops, tx, replied, unplugged, emitted, spawned>>

\* The 10 s window ends without a ready, channels or status message:
\* `raise SBUSCommunicationError("Device ready message not received")`.
\* Nothing closes self.serial_conn.
ConnectTimeout(c) ==
    /\ cpc[c] = "handshake"
    /\ port = "open" /\ ~unplugged /\ rx = <<>>
    /\ Done(c, call[c], "HandshakeTimeout")
    /\ UNCHANGED <<session, queue, snapshots, cbs, reader, cresp, mark, waited, nops, device, spawned>>

\* start_monitoring() without its `if not self.is_connected` test.
StartMonitoring_NoConnectionTest(c) ==
    /\ cpc[c] = "idle" /\ nops < MaxOps
    /\ nops' = nops + 1
    /\ IF is_monitoring
         THEN /\ Done(c, Op("start_monitoring"), "AlreadyMonitoring")
              /\ UNCHANGED <<is_monitoring, stop, monitor_thread, rpc, spawned>>
         ELSE /\ spawned < MaxSpawn
              /\ stop' = FALSE
              /\ spawned' = spawned + 1
              /\ monitor_thread' = spawned + 1
              /\ rpc' = [rpc EXCEPT ![spawned + 1] = "loop"]
              /\ is_monitoring' = TRUE
              /\ Done(c, Op("start_monitoring"), "started")
    /\ UNCHANGED <<is_connected, port, queue, snapshots, cbs, rbuf, rcur, framed,
                   cresp, mark, waited, device>>

\* start_monitoring().
StartMonitoring(c) ==
    /\ cpc[c] = "idle" /\ nops < MaxOps
    /\ nops' = nops + 1
    /\ IF ~is_connected
         THEN /\ Done(c, Op("start_monitoring"), "NotConnected")
              /\ UNCHANGED <<is_monitoring, stop, monitor_thread, rpc, spawned>>
         ELSE IF is_monitoring
         THEN /\ Done(c, Op("start_monitoring"), "AlreadyMonitoring")
              /\ UNCHANGED <<is_monitoring, stop, monitor_thread, rpc, spawned>>
         ELSE /\ spawned < MaxSpawn
              /\ stop' = FALSE
              /\ spawned' = spawned + 1
              /\ monitor_thread' = spawned + 1
              /\ rpc' = [rpc EXCEPT ![spawned + 1] = "loop"]
              /\ is_monitoring' = TRUE
              /\ Done(c, Op("start_monitoring"), "started")
    /\ UNCHANGED <<is_connected, port, queue, snapshots, cbs, rbuf, rcur, framed,
                   cresp, mark, waited, device>>

\* CloseTransport without `self.is_connected = False`.
CloseTransport_KeepsFlag ==
    /\ port' = IF port = "open" THEN "closed" ELSE port
    /\ UNCHANGED is_connected
    /\ rx' = IF port = "open" THEN <<>> ELSE rx

\* `if self.serial_conn and self.serial_conn.is_open: close()` of disconnect().
CloseTransport ==
    /\ port' = IF port = "open" THEN "closed" ELSE port
    /\ is_connected' = IF port = "open" THEN FALSE ELSE is_connected
    /\ rx' = IF port = "open" THEN <<>> ELSE rx

\* stop_monitoring(), called directly or as the first step of disconnect():
\* nothing to stop when is_monitoring is false; otherwise set the flag and
\* join the thread.
StopBegin(c, name) ==
    /\ cpc[c] = "idle" /\ nops < MaxOps
    /\ nops' = nops + 1
    /\ IF is_monitoring
         THEN /\ stop' = TRUE
              /\ cpc' = [cpc EXCEPT ![c] = "join"]
              /\ call' = [call EXCEPT ![c] = Op(name)]
              /\ cres' = [cres EXCEPT ![c] = "none"]
              /\ UNCHANGED <<is_connected, port, rx>>
         ELSE /\ UNCHANGED stop
              /\ IF name = "disconnect"
                   THEN CloseTransport /\ Done(c, Op(name), "disconnected")
                   ELSE UNCHANGED <<is_connected, port, rx>> /\ Done(c, Op(name), "stopped")
    /\ UNCHANGED <<is_monitoring, monitor_thread, queue, snapshots, cbs, reader,
                   cresp, mark, waited, tx, replied, unplugged, emitted, spawned>>

StopMonitoring(c) == StopBegin(c, "stop_monitoring")

Disconnect(c) == StopBegin(c, "disconnect")

\* What follows the join in stop_monitoring(), and in disconnect() after it.
AfterJoin(c) ==
    /\ is_monitoring' = FALSE
    /\ IF call[c].cmd = "disconnect"
         THEN CloseTransport /\ Done(c, call[c], "disconnected")
         ELSE UNCHANGED <<is_connected, port, rx>> /\ Done(c, call[c], "stopped")
    /\ UNCHANGED <<stop, monitor_thread, queue, snapshots, cbs, reader, cresp, mark, waited,
                   nops, tx, replied, unplugged, emitted, spawned>>

\* join(timeout=2.0) returns because the thread has ended.
JoinDone(c) ==
    /\ cpc[c] = "join"
    /\ rpc[monitor_thread] \in {"done", "crashed"}
    /\ AfterJoin(c)

\* join(timeout=2.0) returns after 2 s with the thread still inside a
\* callback.
JoinTimeout(c) ==
    /\ cpc[c] = "join"
    /\ rpc[monitor_thread] \in {"callback", "errcb"}
    /\ AfterJoin(c)

(***************************************************************************)
(* The command path: the wrappers and _send_command.                       *)
(***************************************************************************)
\* validate_channel passes (does not raise SBUSValueError).
validate_channel(channel) == 1 <= channel /\ channel <= SBUS_CHANNELS

\* validate_value passes.
validate_value(value) == SBUS_MIN_VALUE <= value /\ value <= SBUS_MAX_VALUE

\* Validates with set_channels checking only the first pair of its list.
Validates_FirstPairOnly(cmd, args) ==
    CASE cmd = "set_channel" -> validate_channel(args[1][1]) /\ validate_value(args[1][2])
      [] cmd = "set_channels" ->
           Len(args) = 0 \/ (validate_channel(args[1][1]) /\ validate_value(args[1][2]))
      [] cmd = "clear_channel" -> validate_channel(args[1][1])
      [] OTHER -> TRUE

\* The validation a wrapper does before it calls _send_command.
Validates(cmd, args) ==
    CASE cmd = "set_channel" -> validate_channel(args[1][1]) /\ validate_value(args[1][2])
      [] cmd = "set_channels" ->
           \A i \in 1..Len(args) : validate_channel(args[i][1]) /\ validate_value(args[i][2])
      [] cmd = "clear_channel" -> validate_channel(args[1][1])
      [] OTHER -> TRUE

\* What a wrapper makes of the message _send_command returned.
Interpret(cmd, msg) ==
    CASE cmd = "set_channel" ->
           IF msg.type = "channel_set" THEN "True"
           ELSE IF msg.type = "error" THEN "DeviceError" ELSE "False"
      [] cmd = "set_channels" ->
           IF msg.type = "channels_set" THEN "Count"
           ELSE IF msg.type = "error" THEN "DeviceError" ELSE "Zero"
      [] cmd = "clear_channel" ->
           IF msg.type = "channel_cleared" THEN "True" ELSE "False"
      [] cmd = "clear_all" ->
           IF msg.type = "all_cleared" THEN "True" ELSE "False"
      [] cmd = "status" ->
           IF msg.type = "override_status" THEN "OverrideStatus" ELSE "EmptyStatus"
      [] cmd = "help" -> "Raw"

\* CmdBegin with the drain of the response queue done before the connection
\* test instead of after it.
CmdBegin_DrainBeforeGuard(c, cmd, args) ==
    /\ cpc[c] = "idle" /\ nops < MaxOps
    /\ nops' = nops + 1
    /\ cresp' = [cresp EXCEPT ![c] = NoMsg]
    /\ replied' = [replied EXCEPT ![c] = "none"]
    /\ IF ~Validates(cmd, args)
         THEN /\ Done(c, Invoke(cmd, args), "ValueOutOfRange")
              /\ UNCHANGED queue
         ELSE /\ queue' = <<>>
              /\ IF ~is_connected \/ port = "none"
                   THEN Done(c, Invoke(cmd, args), "NotConnected")
                   ELSE /\ cpc' = [cpc EXCEPT ![c] = "write"]
                        /\ call' = [call EXCEPT ![c] = Invoke(cmd, args)]
                        /\ cres' = [cres EXCEPT ![c] = "none"]
    /\ UNCHANGED <<session, snapshots, cbs, reader, mark, waited, rx, tx, unplugged, emitted,
                   spawned>>

\* CmdBegin without the drain of the response queue.
CmdBegin_NoDrain(c, cmd, args) ==
    /\ cpc[c] = "idle" /\ nops < MaxOps
    /\ nops' = nops + 1
    /\ cresp' = [cresp EXCEPT ![c] = NoMsg]
    /\ replied' = [replied EXCEPT ![c] = "none"]
    /\ UNCHANGED queue
    /\ IF ~Validates(cmd, args)
         THEN Done(c, Invoke(cmd, args), "ValueOutOfRange")
         ELSE IF ~is_connected \/ port = "none"
         THEN Done(c, Invoke(cmd, args), "NotConnected")
         ELSE /\ cpc' = [cpc EXCEPT ![c] = "write"]
              /\ call' = [call EXCEPT ![c] = Invoke(cmd, args)]
              /\ cres' = [cres EXCEPT ![c] = "none"]
    /\ UNCHANGED <<session, snapshots, cbs, reader, mark, waited, rx, tx, unplugged, emitted,
                   spawned>>

\* A wrapper is called: its validation, then the start of _send_command,
\* the connection test and the drain of the response queue.
CmdBegin(c, cmd, args) ==
    /\ cpc[c] = "idle" /\ nops < MaxOps
    /\ nops' = nops + 1
    /\ cresp' = [cresp EXCEPT ![c] = NoMsg]
    /\ replied' = [replied EXCEPT ![c] = "none"]
    /\ IF ~Validates(cmd, args)
         THEN /\ Done(c, Invoke(cmd, args), "ValueOutOfRange")
              /\ UNCHANGED queue
         ELSE IF ~is_connected \/ port = "none"
         THEN /\ Done(c, Invoke(cmd, args), "NotConnected")
              /\ UNCHANGED queue
         ELSE /\ queue' = <<>>
              /\ cpc' = [cpc EXCEPT ![c] = "write"]
              /\ call' = [call EXCEPT ![c] = Invoke(cmd, args)]
              /\ cres' = [cres EXCEPT ![c] = "none"]
    /\ UNCHANGED <<session, snapshots, cbs, reader, mark, waited, rx, tx, unplugged, emitted,
                   spawned>>

\* `self.serial_conn.write(cmd_str.encode('utf-8'))`: on a closed or failed
\* transport pyserial raises, and nothing in _send_command catches it.
CmdWrite(c) ==
    /\ cpc[c] = "write"
    /\ IF port # "open" \/ unplugged
         THEN /\ Done(c, call[c], "SerialException")
              /\ UNCHANGED <<tx, mark, waited>>
         ELSE /\ tx' = Append(tx, [cmd |-> call[c].cmd, by |-> c, no |-> call[c].no])
              /\ mark' = [mark EXCEPT ![c] = emitted]
              /\ waited' = [waited EXCEPT ![c] = 0]
              /\ cpc' = [cpc EXCEPT ![c] = "wait"]
              /\ UNCHANGED <<call, cres>>
    /\ UNCHANGED <<session, queue, snapshots, cbs, reader, cresp, nops, rx, replied,
                   unplugged, emitted, spawned>>

\* `msg = self._message_queue.get(timeout=0.1); return msg` inside the
\* wait loop, and the wrapper's reading of the message.
CmdGet(c) ==
    /\ cpc[c] = "wait"
    /\ waited[c] < ResponseTicks
    /\ queue # <<>>
    /\ queue' = Tail(queue)
    /\ cresp' = [cresp EXCEPT ![c] = Head(queue)]
    /\ Done(c, call[c], Interpret(call[c].cmd, Head(queue)))
    /\ UNCHANGED <<session, snapshots, cbs, reader, mark, waited, nops, device, spawned>>

\* A reader thread that will put something on the queue, or find there is
\* nothing to put, well within one poll of the response queue.
ReaderCanProgress(t) ==
    \/ rpc[t] = "lines"
    \/ rpc[t] = "loop" /\ ~stop /\ port = "open" /\ ~unplugged /\ rx # <<>>

\* `get(timeout=0.1)` raises queue.Empty after 0.1 s: `continue`.
CmdPoll(c) ==
    /\ cpc[c] = "wait"
    /\ waited[c] < ResponseTicks
    /\ queue = <<>>
    /\ \A t \in Readers : ~ReaderCanProgress(t)
    /\ waited' = [waited EXCEPT ![c] = waited[c] + 1]
    /\ UNCHANGED <<session, queue, snapshots, cbs, reader, cpc, call, cres, cresp, mark, nops,
                   device, spawned>>

\* `while time.time() - start_time < self._response_timeout` ends:
\* `raise SBUSTimeoutError(...)`.
CmdTimeout(c) ==
    /\ cpc[c] = "wait"
    /\ waited[c] = ResponseTicks
    /\ Done(c, call[c], "Timeout")
    /\ UNCHANGED <<session, queue, snapshots, cbs, reader, cresp, mark, waited, nops, device,
                   spawned>>

(***************************************************************************)
(* The invocations the specifications draw from.                           *)
(***************************************************************************)
Invocations ==
    {<<"set_channel", <<(<<1, SBUS_CENTER_VALUE>>)>> >>,
     <<"set_channel", <<(<<17, SBUS_CENTER_VALUE>>)>> >>,
     <<"status", <<>> >>}

ReaderStep(t) ==
    \/ ReaderExit(t)
    \/ ReaderRead(t)
    \/ ErrorHandlerReturn(t)
    \/ ErrorHandlerRaise(t)
    \/ ReaderLine(t)
    \/ CallbackReturn(t)
    \/ CallbackRaise(t)

LifecycleStep(c) ==
    \/ ConnectOpen(c)
    \/ ConnectReadLine(c)
    \/ ConnectTimeout(c)
    \/ StartMonitoring(c)
    \/ StopMonitoring(c)
    \/ Disconnect(c)
    \/ JoinDone(c)
    \/ JoinTimeout(c)

CommandStep(c) ==
    \/ CmdWrite(c)
    \/ CmdGet(c)
    \/ CmdPoll(c)
    \/ CmdTimeout(c)

\* One caller thread.
Next ==
    \/ \E k \in Telemetry : DeviceTelemetry(k[1], k[2])
    \/ DeviceReply
    \/ Unplug
    \/ \E t \in Readers : ReaderStep(t)
    \/ \E cat \in Categories : SetCallback(1, cat)
    \/ LifecycleStep(1)
    \/ \E inv \in Invocations : CmdBegin(1, inv[1], inv[2])
    \/ CommandStep(1)

Spec == Init /\ [][Next]_vars

(***************************************************************************)
(* Two caller threads: thread 1 runs the session and issues commands,      *)
(* thread 2 issues commands.                                               *)
(***************************************************************************)
NextConc ==
    \/ DeviceTelemetry("channels", "full")
    \/ DeviceReply
    \/ \E t \in Readers : ReaderExit(t) \/ ReaderRead(t) \/ ReaderLine(t)
    \/ ConnectOpen(1) \/ ConnectReadLine(1) \/ ConnectTimeout(1)
    \/ StartMonitoring(1) \/ StopMonitoring(1) \/ Disconnect(1) \/ JoinDone(1)
    \/ \E c \in Callers :
         \/ CmdBegin(c, "set_channel", <<(<<1, SBUS_CENTER_VALUE>>)>>)
         \/ CmdBegin(c, "clear_all", <<>>)
         \/ CommandStep(c)

SpecConc == Init /\ [][NextConc]_vars

(***************************************************************************)
(* One caller thread, no callbacks, a device that streams channel frames   *)
(* and answers no command, and the arguments of the validated wrappers     *)
(* drawn from the edges of their ranges.                                   *)
(***************************************************************************)
ArgChannels == {0, 1, SBUS_CHANNELS, SBUS_CHANNELS + 1}

ArgValues == {SBUS_MIN_VALUE - 1, SBUS_MIN_VALUE, SBUS_MAX_VALUE, SBUS_MAX_VALUE + 1}

ArgPairs ==
    {<<1, SBUS_MIN_VALUE>>, <<0, SBUS_CENTER_VALUE>>,
     <<SBUS_CHANNELS + 1, SBUS_MAX_VALUE>>, <<SBUS_CHANNELS, SBUS_MAX_VALUE + 1>>}

ArgInvocations ==
    {<<"set_channel", <<(<<ch, SBUS_CENTER_VALUE>>)>> >> : ch \in ArgChannels}
    \cup {<<"set_channel", <<(<<1, v>>)>> >> : v \in ArgValues}
    \cup {<<"clear_channel", <<(<<ch, 0>>)>> >> : ch \in ArgChannels}
    \cup {<<"set_channels", <<p>> >> : p \in ArgPairs}
    \cup {<<"set_channels", <<p, q>> >> : p \in ArgPairs, q \in ArgPairs}

NextArgs ==
    \/ DeviceTelemetry("channels", "full")
    \/ \E t \in Readers : ReaderExit(t) \/ ReaderRead(t) \/ ReaderLine(t)
    \/ ConnectOpen(1) \/ ConnectReadLine(1) \/ ConnectTimeout(1)
    \/ StartMonitoring(1) \/ StopMonitoring(1) \/ Disconnect(1) \/ JoinDone(1)
    \/ \E inv \in ArgInvocations : CmdBegin(1, inv[1], inv[2])
    \/ CommandStep(1)

SpecArgs == Init /\ [][NextArgs]_vars

(***************************************************************************)
(* One caller thread that runs the session and issues no command: any      *)
(* sequence of connect(), start_monitoring(), stop_monitoring() and        *)
(* disconnect(), with callbacks, telemetry and transport failure.          *)
(***************************************************************************)
NextLife ==
    \/ DeviceTelemetry("channels", "full") \/ DeviceTelemetry("error", "full")
    \/ Unplug
    \/ \E t \in Readers : ReaderStep(t)
    \/ \E cat \in Categories : SetCallback(1, cat)
    \/ LifecycleStep(1)

SpecLife == Init /\ [][NextLife]_vars

\* The same, with the reader threads scheduled fairly: a reader thread that
\* can take a step of its loop takes one, and a callback it has called
\* comes back.
SpecLifeFair == SpecLife /\ \A t \in Readers : WF_vars(ReaderStep(t))

(***************************************************************************)
(* One caller thread that runs the session and issues commands, no         *)
(* callbacks, and a device that streams channel frames and answers         *)
(* commands. The caller thread is scheduled fairly: inside _send_command   *)
(* it goes on with its write and its wait loop.                            *)
(***************************************************************************)
NextCmd ==
    \/ DeviceTelemetry("channels", "full")
    \/ DeviceReply
    \/ \E t \in Readers : ReaderExit(t) \/ ReaderRead(t) \/ ReaderLine(t)
    \/ ConnectOpen(1) \/ ConnectReadLine(1) \/ ConnectTimeout(1)
    \/ StartMonitoring(1) \/ StopMonitoring(1) \/ Disconnect(1) \/ JoinDone(1)
    \/ CmdBegin(1, "set_channel", <<(<<1, SBUS_CENTER_VALUE>>)>>)
    \/ CmdBegin(1, "status", <<>>)
    \/ CommandStep(1)

SpecCmdFair == Init /\ [][NextCmd]_vars /\ WF_vars(CommandStep(1))

(***************************************************************************)
(* The claims.                                                             *)
(***************************************************************************)
Running == {"loop", "lines", "callback", "errcb"}

\* stop_monitoring() has returned for the reader thread t: t was started,
\* and either monitoring is off or a later thread has replaced it.
StopReturned(t) == rpc[t] # "unborn" /\ (t # monitor_thread \/ ~is_monitoring)

\* C1: once stop_monitoring() has returned the reader thread makes no
\* further access to the transport, and disconnect() never closes the
\* transport while a reader thread is still running.
C1_NoTransportUseAfterStop ==
    [][/\ \A t \in Readers :
            StopReturned(t) => ~(rpc[t] = "loop" /\ rpc'[t] \in {"lines", "errcb"})
       /\ (port = "open" /\ port' = "closed") => \A t \in Readers : rpc[t] \notin Running
      ]_vars

InCall(c) == cpc[c] \in {"write", "wait"}

\* C2: a caller that enters _send_command while another call of the session
\* is between its drain and its return fails fast with CallInProgress, and
\* leaves the response queue and the transport alone.
C2_SecondCallRejected ==
    [][\A c \in Callers :
         (/\ cpc[c] = "idle" /\ call'[c].no = nops + 1
          /\ call'[c].cmd \in {"set_channel", "clear_all"}
          /\ is_connected /\ port # "none"
          /\ \E d \in Callers \ {c} : InCall(d))
         => (cres'[c] = "CallInProgress" /\ cpc'[c] = "idle" /\ UNCHANGED <<queue, tx>>)
      ]_vars

\* C3: the message _send_command returns was emitted by the device after
\* the command was written.
C3_ResponseEmittedAfterWrite ==
    \A c \in Callers : cresp[c] # NoMsg => cresp[c].id > mark[c]

\* A reader thread finishes dispatching a message in this step: the
\* message, or NoMsg.
Dispatched(t) ==
    IF rpc[t] = "callback" /\ rpc'[t] # "callback" THEN rcur[t]
    ELSE IF /\ rpc[t] = "lines" /\ rpc'[t] = "lines" /\ framed' = framed + 1
            /\ HasNL(rbuf[t]) /\ JsonLoads(SplitLine(rbuf[t]))
         THEN [SplitLine(rbuf[t])[1] EXCEPT !.seq = framed + 1]
    ELSE NoMsg

\* C4: while a _send_command call waits, every message the reader thread
\* dispatches is placed on the response queue, whatever its type, whatever
\* the callbacks do, and whether or not building its payload fails.
C4_EveryDispatchQueued ==
    [][\A t \in Readers :
         ((\E c \in Callers : cpc[c] = "wait") /\ Dispatched(t) # NoMsg)
         => queue' = Append(queue, Dispatched(t))
      ]_vars

\* C5: with monitoring running and one caller thread, set_channel with valid
\* arguments returns True when the device answers it with channel_set
\* within the response timeout.
C5_SetChannelAcked ==
    \A c \in Callers :
        (/\ is_monitoring /\ ~unplugged
         /\ call[c].cmd = "set_channel" /\ cpc[c] = "idle" /\ cres[c] # "none"
         /\ replied[c] = "channel_set")
        => cres[c] = "True"

\* C6: messages reach the response queue in the order the lines were
\* framed.
C6_QueueInFramingOrder ==
    \A i \in 1..Len(queue) : \A j \in 1..Len(queue) :
        i < j => queue[i].seq < queue[j].seq

\* C7: an exception raised by a notification callback, wherever the reader
\* thread calls it, never ends the reader thread.
C7_CallbackFailureSurvived ==
    [][\A t \in Readers :
         (rpc[t] \in {"callback", "errcb"} /\ rpc'[t] # rpc[t]) => rpc'[t] \in Running
      ]_vars

\* C8: at most one reader thread of the session is alive.
C8_AtMostOneReader ==
    Cardinality({t \in Readers : rpc[t] \in Running}) <= 1

\* C9: when connect() fails because the startup window elapsed, the session
\* is Disconnected and the transport is closed.
C9_HandshakeTimeoutClosesTransport ==
    \A c \in Callers :
        (call[c].cmd = "connect" /\ cres[c] = "HandshakeTimeout")
        => (~is_connected /\ port # "open")

\* The arguments of an invocation are in the documented ranges: channels in
\* 1..16, values in 0..2047.
ArgsInRange(inv) ==
    CASE inv.cmd = "clear_channel" -> inv.args[1][1] \in 1..16
      [] inv.cmd \in {"set_channel", "set_channels"} ->
           \A i \in 1..Len(inv.args) :
               inv.args[i][1] \in 1..16 /\ inv.args[i][2] \in 0..2047
      [] OTHER -> TRUE

\* C10: validation precedes every effect: set_channel, clear_channel and
\* set_channels with an argument out of range raise ValueOutOfRange without
\* writing to the transport and without draining or reading the response
\* queue.
C10_ValidationPrecedesEffects ==
    [][\A c \in Callers :
         (call'[c].no = nops + 1 /\ ~ArgsInRange(call'[c]))
         => (/\ cres'[c] = "ValueOutOfRange" /\ cpc'[c] = "idle"
             /\ UNCHANGED <<queue, tx, rx>>)
      ]_vars

\* A set_channels call whose first pair is valid and whose second is not
\* has been rejected on a connected session with a message in the queue.
C10_Witness ==
    \E c \in Callers :
        /\ call[c].cmd = "set_channels" /\ Len(call[c].args) = 2
        /\ call[c].args[1] = <<1, SBUS_MIN_VALUE>>
        /\ call[c].args[2] = <<SBUS_CHANNELS, SBUS_MAX_VALUE + 1>>
        /\ cres[c] = "ValueOutOfRange"
        /\ is_connected /\ is_monitoring /\ queue # <<>>

\* The commands built on _send_command.
Commands ==
    {"set_channel", "set_channels", "clear_channel", "clear_all", "status", "help"}

\* C11: a command with valid arguments issued while the session is not
\* connected (never connected, handshake failed, or after disconnect())
\* fails with NotConnected, writes nothing to the transport and leaves the
\* response queue as it was.
C11_NotConnectedBeforeEffects ==
    [][\A c \in Callers :
         (/\ call'[c].no = nops + 1 /\ call'[c].cmd \in Commands
          /\ ArgsInRange(call'[c])
          /\ ~is_connected)
         => (/\ cres'[c] = "NotConnected" /\ cpc'[c] = "idle"
             /\ UNCHANGED <<queue, tx, rx>>)
      ]_vars

\* A command has been refused after disconnect() with a message still in the
\* response queue.
C11_Witness ==
    \E c \in Callers :
        /\ call[c].cmd \in Commands /\ cres[c] = "NotConnected"
        /\ port = "closed" /\ ~is_connected
        /\ queue # <<>>

\* C12: a _send_command call ends by raising Timeout unless a message was
\* placed on the response queue after its command was written, and it raises
\* Timeout only once the response deadline has elapsed. A message that is in
\* the queue when the write completes was placed there before the write; the
\* wait takes it at its first poll.
C12_TimeoutUnlessQueuedAfterWrite ==
    [][\A c \in Callers :
         /\ (cpc[c] = "write" /\ cpc'[c] = "wait") => queue' = <<>>
         /\ (cpc[c] = "wait" /\ cpc'[c] = "idle")
              => \/ cres'[c] = "Timeout" /\ waited[c] = ResponseTicks
                 \/ cresp'[c] # NoMsg /\ cresp'[c] = Head(queue)
      ]_vars

\* C13: when the message _send_command returns is an error message, the
\* wrapper raises DeviceError, whichever command it is.
C13_ErrorReplyRaises ==
    \A c \in Callers :
        (call[c].cmd \in Commands /\ cpc[c] = "idle" /\ cresp[c].type = "error")
        => cres[c] = "DeviceError"

\* C14: a write to the transport that fails inside _send_command ends the
\* call with the library's communication error, and the caller does not go
\* on to wait.
C14_WriteFailureWrapped ==
    [][\A c \in Callers :
         (cpc[c] = "write" /\ (port # "open" \/ unplugged) /\ cpc'[c] # "write")
         => (cpc'[c] = "idle" /\ cres'[c] = "CommunicationError")
      ]_vars

\* The well-formed message reader thread t frames in this step, or NoMsg.
Framed(t) ==
    IF /\ rpc[t] = "lines" /\ rbuf'[t] # rbuf[t] /\ framed' = framed + 1
       /\ HasNL(rbuf[t]) /\ JsonLoads(SplitLine(rbuf[t]))
       /\ SplitLine(rbuf[t])[1].form = "full"
    THEN [SplitLine(rbuf[t])[1] EXCEPT !.seq = framed + 1]
    ELSE NoMsg

\* With monitoring running and the channel callback registered, reader
\* thread t holds the text of a well-formed channels message whose newline
\* another live reader thread has taken: the message has been received and
\* no thread will frame it.
TornLine(t, u) ==
    /\ t # u /\ rpc[t] \in Running /\ rpc[u] \in Running
    /\ is_monitoring /\ "channel" \in cbs
    /\ rbuf[t] # <<>>
    /\ rbuf[t][Len(rbuf[t])].type = "channels" /\ rbuf[t][Len(rbuf[t])].form = "full"
    /\ rbuf[u] # <<>> /\ rbuf[u][1] = NL

\* C15: while monitoring is running every well-formed channels message
\* received is framed and makes exactly one call of the registered channel
\* callback, with that message; after it last_channel_data is that message;
\* and the snapshots change in no other way.
C15_ChannelsDispatchedOnce ==
    [][/\ \A t \in Readers :
            Framed(t).type = "channels"
            => /\ last_channel_data' = Framed(t)
               /\ "channel" \in cbs => (rpc'[t] = "callback" /\ rcur'[t] = Framed(t))
       /\ \A t \in Readers :
            (rpc[t] # "callback" /\ rpc'[t] = "callback" /\ rcur'[t].type = "channels")
            => rcur'[t] = Framed(t)
       /\ last_channel_data' # last_channel_data
            => \E t \in Readers : Framed(t).type = "channels"
       /\ last_device_status' # last_device_status
            => \E t \in Readers : Framed(t).type = "status"
       /\ \A t \in Readers : \A u \in Readers : ~TornLine(t, u)'
      ]_vars

\* The line reader thread t frames in this step is malformed: not JSON, or
\* lacking the fields of its type.
FramedMalformed(t) ==
    /\ rpc[t] = "lines" /\ rbuf'[t] # rbuf[t] /\ framed' = framed + 1
    /\ HasNL(rbuf[t])
    /\ \/ ~JsonLoads(SplitLine(rbuf[t]))
       \/ PayloadRaises(SplitLine(rbuf[t])[1])

\* C16: a malformed line framed by the reader thread is reported through the
\* registered error callback, and the reader thread lives on.
C16_MalformedLineReported ==
    [][\A t \in Readers :
         (FramedMalformed(t) /\ "error" \in cbs)
         => rpc'[t] \in {"callback", "errcb"}
      ]_vars

\* C17: once the transport has failed for good, the reader thread that has
\* reported the fault through the error callback ends; it does not go back
\* to reading.
C17_FaultReportedOnceThenExit ==
    [][\A t \in Readers :
         (unplugged /\ rpc[t] = "errcb" /\ rpc'[t] # "errcb")
         => rpc'[t] \in {"done", "crashed"}
      ]_vars

\* C19: the response queue holds at most one message, and holds one only
\* while a _send_command call is between its drain and its return.
C19_SingleSlotHandoff ==
    /\ Len(queue) <= 1
    /\ queue # <<>> => \E c \in Callers : InCall(c)

\* A caller's step leaves the session, the reader threads, the queue, the
\* snapshots, the callbacks and the transport as they were.
NoStateChange == UNCHANGED <<session, queue, snapshots, cbs, reader, device, spawned>>

\* C18: disconnect() returns normally from every state, with monitoring
\* stopped, the transport closed and the session disconnected; a second
\* disconnect() right after it changes nothing and raises nothing; so does
\* stop_monitoring() when monitoring is already stopped.
C18_DisconnectIdempotent ==
    [][\A c \in Callers :
         /\ (call'[c].cmd = "disconnect" /\ cpc'[c] = "idle"
                /\ (cpc[c] = "join" \/ call'[c].no = nops + 1))
              => (/\ cres'[c] = "disconnected"
                  /\ ~is_monitoring' /\ port' # "open" /\ ~is_connected')
         /\ (cpc[c] = "join" /\ call[c].cmd = "disconnect")
              => (/\ monitor_thread \in Readers
                  /\ rpc[monitor_thread] \in Running \cup {"done", "crashed"}
                  /\ rpc[monitor_thread] = "loop" => stop)
         /\ (call[c].cmd = "disconnect" /\ cpc[c] = "idle"
                /\ call'[c].cmd = "disconnect" /\ call'[c].no = nops + 1)
              => (cpc'[c] = "idle" /\ cres'[c] = "disconnected" /\ NoStateChange)
         /\ (~is_monitoring /\ call'[c].cmd = "stop_monitoring" /\ call'[c].no = nops + 1)
              => (cpc'[c] = "idle" /\ cres'[c] = "stopped" /\ NoStateChange)
      ]_vars

\* disconnect() has been called twice in a row on a session that was
\* connected and monitoring.
C18_Witness ==
    \E c \in Callers :
        /\ call[c].cmd = "disconnect" /\ cres[c] = "disconnected" /\ cpc[c] = "idle"
        /\ call[c].no = 4 /\ spawned = 1 /\ port = "closed"
        /\ rpc[1] = "done" /\ stop

\* C20: with one caller thread, is_monitoring implies is_connected in every
\* state, and start_monitoring() on a disconnected session fails, starts
\* no thread and changes no state.
C20_MonitoringOnlyWhileConnected ==
    [][/\ is_monitoring => is_connected
       /\ is_monitoring' => is_connected'
       /\ \A c \in Callers :
            (~is_connected /\ call'[c].cmd = "start_monitoring" /\ call'[c].no = nops + 1)
            => (cpc'[c] = "idle" /\ cres'[c] = "NotConnected" /\ NoStateChange)
      ]_vars

\* start_monitoring() has been refused on a session that was monitoring and
\* has been disconnected.
C20_Witness ==
    \E c \in Callers :
        /\ call[c].cmd = "start_monitoring" /\ cres[c] = "NotConnected"
        /\ spawned = 1 /\ port = "closed" /\ ~is_monitoring

\* stop_monitoring() has set the stop flag and is joining reader thread t.
StopSignalled(t) ==
    \E c \in Callers : cpc[c] = "join" /\ monitor_thread = t /\ stop

\* C21: under fair scheduling of the reader threads, the reader thread that
\* stop_monitoring() has signalled eventually ends, whatever the caller does
\* afterwards.
C21_SignalledReaderExits ==
    \A t \in Readers : StopSignalled(t) ~> (rpc[t] \notin Running)

NoReaderRunning == \A t \in Readers : rpc[t] \notin Running

\* The call of caller c is in flight with no reader thread running and
\* nothing in the response queue.
Unfed(c) == InCall(c) /\ NoReaderRunning /\ queue = <<>>

====
